---- MODULE Spec2Model ----
(***************************************************************************)
(* A model of pygiro's Account (src/pygiro/degiro/account.py): the raw     *)
(* DEGIRO ledger is repaired, sorted, parsed and classified into the       *)
(* statement, the ticker mapping is completed, the statement is replayed   *)
(* into per-date snapshots and a daily portfolio, and prices are added.    *)
(*                                                                         *)
(* Text is a sequence of symbols.  A description is a sequence of single   *)
(* characters, because keywords and regular expressions look inside it;    *)
(* the other text fields are sequences of opaque tokens, because the code  *)
(* only concatenates and compares them.  A missing field (pandas NaN) is   *)
(* the value NA.  Floating point numbers are fixed point numbers counted   *)
(* in tenths, plus the value NaN that absorbs every addition.              *)
(***************************************************************************)
EXTENDS Integers, Sequences, FiniteSets, TLC

\* ------------------------------------------------------------------ text

\* A missing cell of the frame (NaN).
NA == <<"<NA>">>

Digits == <<"0", "1", "2", "3", "4", "5", "6", "7", "8", "9">>

DigitSet == {Digits[k] : k \in 1..Len(Digits)}

DigitValue(c) == (CHOOSE k \in 1..Len(Digits) : Digits[k] = c) - 1

UpperChars == <<"A", "B", "C", "D", "E", "F", "G", "H", "I", "J", "K", "L", "M",
                "N", "O", "P", "Q", "R", "S", "T", "U", "V", "W", "X", "Y", "Z">>

LowerChars == <<"a", "b", "c", "d", "e", "f", "g", "h", "i", "j", "k", "l", "m",
                "n", "o", "p", "q", "r", "s", "t", "u", "v", "w", "x", "y", "z">>

\* str.lower() of one character.
LowerChar(c) ==
    IF \E k \in 1..Len(UpperChars) : UpperChars[k] = c
    THEN LowerChars[CHOOSE k \in 1..Len(UpperChars) : UpperChars[k] = c]
    ELSE c

\* The sequence f, written out element by element.
Tuple(f) == f \o <<>>

\* str.lower()
Lower(s) == Tuple([k \in 1..Len(s) |-> LowerChar(s[k])])

\* str(x): the text of a cell; a missing cell prints as "nan".
Str(x) == IF x = NA THEN <<"n", "a", "n">> ELSE x

\* lit occurs in s at position p.
MatchAt(s, p, lit) ==
    /\ p >= 1
    /\ p + Len(lit) - 1 <= Len(s)
    /\ \A j \in 1..Len(lit) : s[p + j - 1] = lit[j]

\* Python's `keyword in description`.
Contains(s, lit) == \E p \in 1..(Len(s) + 1) : MatchAt(s, p, lit)

\* The last position of the longest run of characters of class cls that
\* starts at p (p - 1 when s[p] is not in cls): a greedy cls* from p.
SpanEnd(s, p, cls) ==
    CHOOSE q \in (p - 1)..Len(s) :
        /\ \A j \in p..q : s[j] \in cls
        /\ q = Len(s) \/ s[q + 1] \notin cls

Slice(s, a, b) == SubSeq(s, a, b)

\* ------------------------------------------------------------ numbers

NaN == [isnan |-> TRUE, v |-> 0]

F(n) == [isnan |-> FALSE, v |-> n]

\* float + float
FAdd(a, b) == IF a.isnan \/ b.isnan THEN NaN ELSE F(a.v + b.v)

\* float - float
FSub(a, b) == IF a.isnan \/ b.isnan THEN NaN ELSE F(a.v - b.v)

\* float * -1
FNeg(a) == IF a.isnan THEN NaN ELSE F(0 - a.v)

RECURSIVE DigitsToNat(_)
DigitsToNat(s) ==
    IF Len(s) = 0 THEN 0
    ELSE 10 * DigitsToNat(SubSeq(s, 1, Len(s) - 1)) + DigitValue(s[Len(s)])

\* s with every "," replaced by ".".
ReplaceComma(s) == Tuple([k \in 1..Len(s) |-> IF s[k] = "," THEN "." ELSE s[k]])

\* float(s) accepts s: an optional sign, then digits with at most one
\* decimal point and at least one digit.
IsFloat(s) ==
    LET body == IF Len(s) > 0 /\ s[1] = "-" THEN Tail(s) ELSE s
        dots == {k \in 1..Len(body) : body[k] = "."}
    IN  /\ \A k \in 1..Len(body) : body[k] \in DigitSet \cup {"."}
        /\ Cardinality(dots) <= 1
        /\ \E k \in 1..Len(body) : body[k] \in DigitSet

\* float(s) of an accepted s, in tenths.  The ledgers of this model carry
\* at most one fractional digit; only the first one is read.
FloatOf(s) ==
    LET neg  == Len(s) > 0 /\ s[1] = "-"
        body == IF neg THEN Tail(s) ELSE s
        dot  == IF \E k \in 1..Len(body) : body[k] = "."
                THEN CHOOSE k \in 1..Len(body) : body[k] = "."
                ELSE Len(body) + 1
        int  == DigitsToNat(SubSeq(body, 1, dot - 1))
        frac == IF dot + 1 <= Len(body) THEN DigitValue(body[dot + 1]) ELSE 0
        mag  == 10 * int + frac
    IN  F(IF neg THEN 0 - mag ELSE mag)

\* ------------------------------------------------------- classification

LINE_TYPES_BuyBeforeSell ==
    << [type |-> "deposit",
        keywords |-> {<<"i","d","e","a","l"," ","d","e","p","o","s","i","t">>,
                      <<"s","o","f","o","r","t"," ","d","e","p","o","s","i","t">>}],
       [type |-> "withdrawal",
        keywords |-> {<<"i","d","e","a","l"," ","w","i","t","h","d","r","a","w","a","l">>,
                      <<"s","o","f","o","r","t"," ","w","i","t","h","d","r","a","w","a","l">>}],
       [type |-> "fx",
        keywords |-> {<<"v","a","l","u","t","a"," ","d","e","b","i","t","e","r","i","n","g">>,
                      <<"v","a","l","u","t","a"," ","c","r","e","d","i","t","e","r","i","n","g">>}],
       [type |-> "buy", keywords |-> {<<"k","o","o","p">>}],
       [type |-> "sell", keywords |-> {<<"v","e","r","k","o","o","p">>}],
       [type |-> "dividend", keywords |-> {<<"d","i","v","i","d","e","n","d">>}],
       [type |-> "interest",
        keywords |-> {<<"f","l","a","t","e","x"," ","i","n","t","e","r","e","s","t"," ","i","n","c","o","m","e">>}],
       [type |-> "rebate",
        keywords |-> {<<"v","e","r","r","e","k","e","n","i","n","g"," ","p","r","o","m","o","t","i","e">>}],
       [type |-> "cost",
        keywords |-> {<<"d","e","g","i","r","o"," ","t","r","a","n","s","a","c","t","i","e","k","o","s","t","e","n">>,
                      <<"d","e","g","i","r","o"," ","a","a","n","s","l","u","i","t","i","n","g","s","k","o","s","t","e","n">>,
                      <<"e","x","t","e","r","n","e"," ","k","o","s","t","e","n">>,
                      <<"s","t","a","m","p"," ","d","u","t","y">>}],
       [type |-> "other", keywords |-> {}] >>

\* The ordered rule table: (category, keyword set), in priority order.
LINE_TYPES ==
    << [type |-> "deposit",
        keywords |-> {<<"i","d","e","a","l"," ","d","e","p","o","s","i","t">>,
                      <<"s","o","f","o","r","t"," ","d","e","p","o","s","i","t">>}],
       [type |-> "withdrawal",
        keywords |-> {<<"i","d","e","a","l"," ","w","i","t","h","d","r","a","w","a","l">>,
                      <<"s","o","f","o","r","t"," ","w","i","t","h","d","r","a","w","a","l">>}],
       [type |-> "fx",
        keywords |-> {<<"v","a","l","u","t","a"," ","d","e","b","i","t","e","r","i","n","g">>,
                      <<"v","a","l","u","t","a"," ","c","r","e","d","i","t","e","r","i","n","g">>}],
       [type |-> "sell", keywords |-> {<<"v","e","r","k","o","o","p">>}],
       [type |-> "buy", keywords |-> {<<"k","o","o","p">>}],
       [type |-> "dividend", keywords |-> {<<"d","i","v","i","d","e","n","d">>}],
       [type |-> "interest",
        keywords |-> {<<"f","l","a","t","e","x"," ","i","n","t","e","r","e","s","t"," ","i","n","c","o","m","e">>}],
       [type |-> "rebate",
        keywords |-> {<<"v","e","r","r","e","k","e","n","i","n","g"," ","p","r","o","m","o","t","i","e">>}],
       [type |-> "cost",
        keywords |-> {<<"d","e","g","i","r","o"," ","t","r","a","n","s","a","c","t","i","e","k","o","s","t","e","n">>,
                      <<"d","e","g","i","r","o"," ","a","a","n","s","l","u","i","t","i","n","g","s","k","o","s","t","e","n">>,
                      <<"e","x","t","e","r","n","e"," ","k","o","s","t","e","n">>,
                      <<"s","t","a","m","p"," ","d","u","t","y">>}],
       [type |-> "other", keywords |-> {}] >>

\* The loop of _classify_line from rule k on: the first rule with a keyword
\* inside the description wins; "other" when the table is exhausted.
RECURSIVE ClassifyFrom(_, _)
ClassifyFrom(description, k) ==
    IF k > Len(LINE_TYPES) THEN "other"
    ELSE IF \E keyword \in LINE_TYPES[k].keywords : Contains(description, keyword)
         THEN LINE_TYPES[k].type
         ELSE ClassifyFrom(description, k + 1)

\* Account._classify_line
classify_line(line) == ClassifyFrom(Lower(Str(line.description)), 1)

\* ------------------------------------------------- shares and prices

Koop == <<"K","o","o","p">>

Verkoop == <<"V","e","r","k","o","o","p">>

Spaces == {" "}

\* The regular expression (?:Koop|Verkoop)\s+(\d+) matches s with its
\* keyword at p: the keyword, at least one blank, at least one digit.
SharesMatchAt(s, p) ==
    \E kw \in {Koop, Verkoop} :
        /\ MatchAt(s, p, kw)
        /\ LET q == p + Len(kw)
               r == SpanEnd(s, q, Spaces) + 1
           IN  r > q /\ r <= Len(s) /\ s[r] \in DigitSet

\* The captured group (\d+) of the match at p.
SharesGroupAt(s, p) ==
    LET kw == CHOOSE k \in {Koop, Verkoop} : MatchAt(s, p, k)
        r  == SpanEnd(s, p + Len(kw), Spaces) + 1
    IN  Slice(s, r, SpanEnd(s, r, DigitSet))

\* description.str.extract(r"(?:Koop|Verkoop)\s+(\d+)").astype(float): the
\* group of the leftmost match, NaN without a match or a description.
ExtractShares(description) ==
    IF description = NA \/ ~ \E p \in 1..Len(description) : SharesMatchAt(description, p)
    THEN NaN
    ELSE LET p == CHOOSE p \in 1..Len(description) :
                      /\ SharesMatchAt(description, p)
                      /\ \A o \in 1..(p - 1) : ~ SharesMatchAt(description, o)
         IN  F(10 * DigitsToNat(SharesGroupAt(description, p)))

PriceChars == DigitSet \cup {".", ","}

\* The regular expression @\s*([\d.,]+) matches s with its "@" at p.
PriceMatchAt(s, p) ==
    /\ s[p] = "@"
    /\ LET r == SpanEnd(s, p + 1, Spaces) + 1
       IN  r <= Len(s) /\ s[r] \in PriceChars

\* The captured group ([\d.,]+) of the leftmost match, NA without one.
PriceGroup(description) ==
    IF description = NA \/ ~ \E p \in 1..Len(description) : PriceMatchAt(description, p)
    THEN NA
    ELSE LET p == CHOOSE p \in 1..Len(description) :
                      /\ PriceMatchAt(description, p)
                      /\ \A o \in 1..(p - 1) : ~ PriceMatchAt(description, o)
             r == SpanEnd(description, p + 1, Spaces) + 1
         IN  Slice(description, r, SpanEnd(description, r, PriceChars))

\* ------------------------------------------------------ the raw ledger

\* utils.constants.STATEMENT_COLS: the twelve columns of the export.
STATEMENT_COLS ==
    <<"date", "time", "currency_date", "name", "ISIN", "description", "FX",
      "mutation", "amount", "currency", "balance", "order_id">>

\* utils.constants.NUMERIC_COLS
NUMERIC_COLS == <<"FX", "amount", "balance">>

Cols == {STATEMENT_COLS[k] : k \in 1..Len(STATEMENT_COLS)}

\* line.fillna(""): a missing cell becomes the empty text.
FillNa(line) == [c \in Cols |-> IF line[c] = NA THEN <<>> ELSE line[c]] @@ <<>>

\* AddCell with the operands exchanged.
AddCell_Prepend(x, y) == IF x = NA THEN NA ELSE y \o x

\* One cell of `row + line` on two object rows: text is concatenated; where
\* the left cell is missing the sum stays missing (pandas adds object arrays
\* under the mask of the cells present on both sides).
AddCell(x, y) == IF x = NA THEN NA ELSE x \o y

\* statement.iloc[k] + line.fillna("")
AddRow(row, line) ==
    LET filled == FillNa(line)
    IN  [c \in Cols |-> AddCell(row[c], filled[c])] @@ <<>>

\* iloc[idx - 1] for the row at 1-based position k (idx = k - 1): the row
\* before it, and for the first row (idx - 1 = -1) the last row of the frame.
TargetOf(k, n) == IF k = 1 THEN n ELSE k - 1

\* The loop over statement[statement.date.isna()].iterrows() from position k
\* on: `lines` is the copy taken before the loop, `rows` the frame being
\* repaired in place.
RECURSIVE RepairFrom(_, _, _)
RepairFrom(rows, lines, k) ==
    IF k > Len(lines) THEN rows
    ELSE IF lines[k]["date"] = NA
         THEN RepairFrom([rows EXCEPT ![TargetOf(k, Len(rows))] = AddRow(@, lines[k])],
                         lines, k + 1)
         ELSE RepairFrom(rows, lines, k + 1)

\* The positions that statement.dropna(subset=["date"]) keeps, in order.
RECURSIVE DatedFrom(_, _)
DatedFrom(rows, k) ==
    IF k > Len(rows) THEN <<>>
    ELSE IF rows[k]["date"] = NA THEN DatedFrom(rows, k + 1)
         ELSE <<k>> \o DatedFrom(rows, k + 1)

\* "Handle extended rows": the repaired frame without its undated rows; each
\* row keeps the label (position in the file) it was read with.
RepairRows(file) ==
    LET rows == RepairFrom(file, file, 1)
        kept == DatedFrom(rows, 1)
    IN  Tuple([j \in 1..Len(kept) |-> [origin |-> kept[j], cells |-> rows[kept[j]]]])

\* ------------------------------------------------- dates and numbers

\* A date is written as one day token, a time as one minute token (the
\* model's "%d-%m-%Y" and "%H:%M").
DayTokens == DigitSet \ {"0"}

ValidDate(cell) == cell # NA /\ Len(cell) = 1 /\ cell[1] \in DayTokens

ValidTime(cell) == cell # NA /\ Len(cell) = 1 /\ cell[1] \in DigitSet

\* pd.to_datetime raises ValueError on this row.
StampError(cells) ==
    \/ ~ ValidDate(cells["date"])
    \/ cells["time"] # NA /\ ~ ValidTime(cells["time"])

DayOf(cells) == DigitValue(cells["date"][1])

\* The timestamp of a row as a sort key; a missing time gives NaT, which
\* sorts last.
StampOf(cells) ==
    IF cells["time"] = NA THEN 10 * 10 * 10
    ELSE 10 * DayOf(cells) + DigitValue(cells["time"][1])

\* .replace({",": "."}, regex=True).astype(float) raises ValueError.
NumericError(cells) ==
    \E k \in 1..Len(NUMERIC_COLS) :
        /\ cells[NUMERIC_COLS[k]] # NA
        /\ ~ IsFloat(ReplaceComma(cells[NUMERIC_COLS[k]]))

ParseNum(cell) == IF cell = NA THEN NaN ELSE FloatOf(ReplaceComma(cell))

\* .str.replace(",", ".").astype(float) raises ValueError on the price.
PriceError(cells) ==
    /\ PriceGroup(cells["description"]) # NA
    /\ ~ IsFloat(ReplaceComma(PriceGroup(cells["description"])))

ExtractPrice(description) ==
    IF PriceGroup(description) = NA THEN NaN
    ELSE FloatOf(ReplaceComma(PriceGroup(description)))

\* ----------------------------------------------------------- sorting

Orderings(n) ==
    {p \in [1..n -> 1..n] : \A a, b \in 1..n : a # b => p[a] # p[b]}

\* statement.sort_index(): an index that is already ascending is left as it
\* is; otherwise the rows are sorted by an unstable sort, which may leave
\* rows of equal timestamp in any order.
SortOrders(rows) ==
    LET n == Len(rows)
        asc(p) == \A a \in 1..(n - 1) :
                      StampOf(rows[p[a]].cells) <= StampOf(rows[p[a + 1]].cells)
        id == [a \in 1..n |-> a]
    IN  IF asc(id) THEN {id} ELSE {p \in Orderings(n) : asc(p)}

\* ----------------------------------------------------- the statement

\* One row of the formatted frame: parsed numbers, the date, the type and the
\* extracted shares and price.
FormatLine(row) ==
    LET cells == row.cells
        type  == classify_line(cells)
        found == ExtractShares(cells["description"])
    IN  [origin      |-> row.origin,
         stamp       |-> StampOf(cells),
         date        |-> DayOf(cells),
         name        |-> cells["name"],
         ISIN        |-> cells["ISIN"],
         description |-> cells["description"],
         FX          |-> ParseNum(cells["FX"]),
         mutation    |-> cells["mutation"],
         amount      |-> ParseNum(cells["amount"]),
         currency    |-> cells["currency"],
         balance     |-> ParseNum(cells["balance"]),
         order_id    |-> cells["order_id"],
         type        |-> type,
         shares      |-> IF type = "sell" THEN FNeg(found) ELSE found,
         price       |-> ExtractPrice(cells["description"])]

\* _format_account_statement raises (ValueError) on this file.
FormatError(file) ==
    \E k \in 1..Len(RepairRows(file)) :
        LET cells == RepairRows(file)[k].cells
        IN  StampError(cells) \/ NumericError(cells) \/ PriceError(cells)

\* The frame of _format_account_statement before its last line, for the
\* sort order p.
FormatFrame(file, p) ==
    LET rows == RepairRows(file)
    IN  Tuple([j \in 1..Len(rows) |-> FormatLine(rows[p[j]])])

\* DropOther without the filter.
DropOther_KeepAll(frame) == frame

\* statement[statement.type != 'other']
DropOther(frame) == SelectSeq(frame, LAMBDA line : line.type # "other")

\* --------------------------------------------------------- the replay

\* defaultdict(float)[key]
Get(d, key) == IF key \in DOMAIN d THEN d[key] ELSE F(0)

\* d[key] = value
Put(d, key, value) == (key :> value) @@ d

\* AdjustBalance with the amount stored in place of the sum.
AdjustBalance_Overwrite(current_holdings, line) ==
    Put(current_holdings, line.currency, line.amount)

\* "Adjust balance": the line's amount goes to the currency's holding.
AdjustBalance(current_holdings, line) ==
    Put(current_holdings, line.currency,
        FAdd(Get(current_holdings, line.currency), line.amount))

\* AdjustShares without its test of the line's type.
AdjustShares_AnyType(current_holdings, line) ==
    IF line.ISIN # NA
    THEN Put(current_holdings, line.ISIN,
             FAdd(Get(current_holdings, line.ISIN),
                  IF line.shares.isnan THEN F(0) ELSE line.shares))
    ELSE current_holdings

\* "Adjust shares (if needed)" on the holdings.
AdjustShares(current_holdings, line) ==
    IF line.type \in {"buy", "sell"}
    THEN Put(current_holdings, line.ISIN,
             FAdd(Get(current_holdings, line.ISIN), line.shares))
    ELSE current_holdings

\* AdjustInvestment without the debit of the security's key.
AdjustInvestment_NoTransfer(current_investment, line) ==
    Put(current_investment, line.currency,
        FAdd(Get(current_investment, line.currency), line.amount))

\* The two statements of the loop body that write current_investment.
AdjustInvestment(current_investment, line) ==
    LET cash == Put(current_investment, line.currency,
                    FAdd(Get(current_investment, line.currency), line.amount))
    IN  IF line.type \in {"buy", "sell"}
        THEN Put(cash, line.ISIN, FSub(Get(cash, line.ISIN), line.amount))
        ELSE cash

\* The body of the inner loop on the holdings.
ApplyHoldings(current_holdings, line) ==
    AdjustShares(AdjustBalance(current_holdings, line), line)

\* The last line of a date's group has been replayed.
GroupEnds(statement, k) ==
    k = Len(statement) \/ statement[k + 1].date # statement[k].date

\* CarryForward with the running mapping reset for every date.
CarryForward_Reset(current) == [k \in {} |-> NaN]

\* The running mapping that the next date's group starts from: the same
\* dictionary, carried forward.
CarryForward(current) == current

\* StoreSnapshot without the copy: every date holds the one running
\* dictionary, so all stored snapshots show its present content.
StoreSnapshot_NoCopy(snapshots, date, current) ==
    [d \in DOMAIN snapshots \cup {date} |-> current]

\* holdings[date] = current_holdings.copy()
StoreSnapshot(snapshots, date, current) == Put(snapshots, date, current)

\* ------------------------------------------------ the daily portfolio

\* Every asset key of the snapshots: the columns of the unstacked frame.
AssetsOf(snapshots) == UNION {DOMAIN snapshots[d] : d \in DOMAIN snapshots}

\* The cell (d, asset) of the unstacked frame: missing when d is no
\* transaction date or the asset had not appeared by then.  A NaN value is
\* a missing cell as well.
CellOf(snapshots, d, asset) ==
    IF d \in DOMAIN snapshots /\ asset \in DOMAIN snapshots[d]
    THEN snapshots[d][asset]
    ELSE NaN

\* FFill without the forward fill.
FFill_NoFill(snapshots, start, d, asset) == CellOf(snapshots, d, asset)

\* .reindex(period).ffill(): the cell of day d, or else the last cell
\* present on an earlier day of the period.
RECURSIVE FFill(_, _, _, _)
FFill(snapshots, start, d, asset) ==
    IF d < start THEN NaN
    ELSE IF ~ CellOf(snapshots, d, asset).isnan THEN CellOf(snapshots, d, asset)
         ELSE FFill(snapshots, start, d - 1, asset)

\* KeepRow without the test of the holding.
KeepRow_KeepZero(holding, investment) == ~ holding.isnan /\ ~ investment.isnan

\* portfolio[portfolio.holding != 0.0].dropna() keeps the row.
KeepRow(holding, investment) ==
    /\ holding # F(0)
    /\ ~ holding.isnan
    /\ ~ investment.isnan

\* "Multi-Index format", "Merge data" and "Daily frequency": the portfolio
\* over the period start..end, indexed by (date, asset).
DailyPortfolio(holdings, investments, start, end) ==
    LET assets == AssetsOf(holdings) \cup AssetsOf(investments)
        index  == {ix \in (start..end) \X assets :
                      KeepRow(FFill(holdings, start, ix[1], ix[2]),
                              FFill(investments, start, ix[1], ix[2]))}
    IN  [ix \in index |->
            [holding    |-> FFill(holdings, start, ix[1], ix[2]),
             investment |-> FFill(investments, start, ix[1], ix[2])]]

\* ------------------------------------------------- the ticker mapping

Range(f) == {f[x] : x \in DOMAIN f}

\* self.statement[self.statement.ISIN == isin].iloc[0]
FirstLineOf(statement, isin) ==
    statement[CHOOSE k \in 1..Len(statement) :
                  /\ statement[k].ISIN = isin
                  /\ \A o \in 1..(k - 1) : statement[o].ISIN # isin]

\* AddTicker without the test of the currency.
AddTicker_AnyCurrency(tickers, listings, k, currency, isin) ==
    LET free == {o \in k..Len(listings) : listings[o].ticker \notin DOMAIN tickers}
    IN  IF free = {} THEN tickers
        ELSE Put(tickers, listings[CHOOSE o \in free : \A u \in free : o <= u].ticker, isin)

\* The loop over the listings from position k on: the first ticker of the
\* asset's currency that the mapping does not hold yet is mapped to the ISIN.
RECURSIVE AddTicker(_, _, _, _, _)
AddTicker(tickers, listings, k, currency, isin) ==
    IF k > Len(listings) THEN tickers
    ELSE IF listings[k].currency = currency /\ listings[k].ticker \notin DOMAIN tickers
         THEN Put(tickers, listings[k].ticker, isin)
         ELSE AddTicker(tickers, listings, k + 1, currency, isin)

\* ------------------------------------------------------ the constructor

\* The steps of Account.__init__, in the order it runs them.
Steps == <<"format", "mapping", "replay", "prices", "valuation", "done">>

StepAfter(step) == Steps[(CHOOSE k \in 1..Len(Steps) : Steps[k] = step) + 1]

\* Propagate with the exception caught and the constructor going on.
Propagate_Swallow(step, err) == StepAfter(step)

\* Where the constructor is after `step` ended with `err`: an exception is
\* not caught anywhere, so it leaves the constructor.
Propagate(step, err) == IF err = "none" THEN StepAfter(step) ELSE "failed"

\* ------------------------------------------------------------ inputs

\* The longest ledger, in physical rows.
MaxRows == 3

\* The last calendar day that "yesterday" can be.
MaxDay == 4

EUR == <<"EUR">>

USD == <<"USD">>

ISIN1 == <<"NL01">>

ISIN2 == <<"US02">>

\* A physical row of the export.  The value date repeats the date, no FX
\* rate is given, the mutation is in the row's currency and the balance
\* column is not followed.
Row(date, time, name, isin, description, amount, currency, order_id) ==
    [c \in Cols |->
        CASE c = "date"          -> date
          [] c = "time"          -> time
          [] c = "currency_date" -> date
          [] c = "name"          -> name
          [] c = "ISIN"          -> isin
          [] c = "description"   -> description
          [] c = "FX"            -> NA
          [] c = "mutation"      -> IF amount = NA THEN NA ELSE currency
          [] c = "amount"        -> amount
          [] c = "currency"      -> IF amount = NA THEN NA ELSE currency
          [] c = "balance"       -> IF amount = NA THEN NA ELSE <<"0", ",", "0">>
          [] c = "order_id"      -> order_id] @@ <<>>

\* The transactions of a trading day d, as the export writes them.
DayRows(d) ==
    { Row(d, <<"0">>, NA, NA,
          <<"i","D","E","A","L"," ","D","e","p","o","s","i","t">>,
          <<"5", ",", "0">>, EUR, NA),
      Row(d, <<"1">>, <<"ASML">>, ISIN1,
          <<"K","o","o","p"," ","2"," ","@"," ","1",",","5">>,
          <<"-", "3", ",", "0">>, EUR, <<"a1">>),
      Row(d, <<"1">>, <<"ASML">>, ISIN1,
          <<"D","E","G","I","R","O"," ","T","r","a","n","s","a","c","t","i","e","k","o","s","t","e","n">>,
          <<"-", "0", ",", "5">>, EUR, <<"a1">>),
      Row(d, <<"2">>, <<"ASML">>, ISIN1,
          <<"V","e","r","k","o","o","p"," ","2"," ","@"," ","2">>,
          <<"4", ",", "0">>, EUR, <<"b2">>),
      Row(d, <<"2">>, <<"ASML">>, ISIN1,
          <<"v","e","r","k","o","o","p"," ","1">>,
          <<"2", ",", "0">>, EUR, NA),
      Row(d, <<"2">>, <<"APPLE">>, ISIN2,
          <<"K","o","o","p"," ","1"," ","@"," ","2">>,
          <<"-", "2", ",", "0">>, USD, <<"c3">>),
      Row(d, <<"3">>, NA, NA, <<"x">>, <<"1", ",", "0">>, EUR, NA) }

\* The trading days of the ledgers.
TradingDays == {<<"1">>, <<"2">>, <<"3">>}

TransactionRows == UNION {DayRows(d) : d \in TradingDays}

SeqsUpTo(S, n) == UNION {[1..k -> S] : k \in 1..n}

\* The export lists the newest day first.
ExportOrder(f) == \A k \in 1..(Len(f) - 1) : DayOf(f[k]) >= DayOf(f[k + 1])

\* The user's ticker-to-ISIN mappings; the empty one stands for None.
NoMapping == [t \in {} |-> ISIN1]

FullMapping == [t \in {"T1", "T2"} |-> IF t = "T1" THEN ISIN1 ELSE ISIN2]

\* What get_listings can answer: LookupError, or the listings in the order
\* of the search result.
Quote(ticker, currency) == [ticker |-> ticker, currency |-> currency]

Lookups ==
    { [ok |-> FALSE, listings |-> <<>>],
      [ok |-> TRUE, listings |-> <<Quote("T1", EUR)>>],
      [ok |-> TRUE, listings |-> <<Quote("T2", USD)>>],
      [ok |-> TRUE, listings |-> <<Quote("T2", USD), Quote("T1", EUR)>>],
      [ok |-> TRUE, listings |-> <<Quote("T1", EUR), Quote("T3", EUR)>>],
      [ok |-> TRUE, listings |-> <<Quote("T1", USD), Quote("T2", USD)>>] }

\* ------------------------------------------- analytics: time series

\* Floats that are fractions: n/d in lowest terms with d > 0.  The returns
\* of the series below are dyadic, so the float arithmetic of the source is
\* exact on them.
Abs(n) == IF n < 0 THEN 0 - n ELSE n

RECURSIVE GCD(_, _)
GCD(a, b) == IF b = 0 THEN a ELSE GCD(b, a % b)

Frac(n, d) ==
    LET g == GCD(Abs(n), Abs(d))
        sgn == IF d < 0 THEN 0 - 1 ELSE 1
    IN  [isnan |-> FALSE, n |-> (sgn * n) \div g, d |-> (sgn * d) \div g]

\* np.nan
nan == [isnan |-> TRUE, n |-> 0, d |-> 1]

Zero == Frac(0, 1)

One == Frac(1, 1)

RAdd(a, b) == IF a.isnan \/ b.isnan THEN nan ELSE Frac(a.n * b.d + b.n * a.d, a.d * b.d)

RSub(a, b) == IF a.isnan \/ b.isnan THEN nan ELSE Frac(a.n * b.d - b.n * a.d, a.d * b.d)

RMul(a, b) == IF a.isnan \/ b.isnan THEN nan ELSE Frac(a.n * b.n, a.d * b.d)

\* a / b; 0/0 is NaN (no path below has a zero peak: every return is above
\* -1).
RDiv(a, b) ==
    IF a.isnan \/ b.isnan \/ b.n = 0 THEN nan ELSE Frac(a.n * b.d, a.d * b.n)

RLess(a, b) == a.n * b.d < b.n * a.d

\* (1 + series).cumprod()
RECURSIVE CumProd(_, _)
CumProd(series, k) ==
    IF k = 0 THEN <<>>
    ELSE LET head == CumProd(series, k - 1)
         IN  Append(head, RMul(IF k = 1 THEN One ELSE head[k - 1],
                               RAdd(One, series[k])))

cumulative_series(series) == CumProd(series, Len(series))

\* cumulative_series.cummax()
RECURSIVE CumMax(_, _)
CumMax(path, k) ==
    IF k = 0 THEN <<>>
    ELSE LET head == CumMax(path, k - 1)
         IN  Append(head, IF k > 1 /\ RLess(path[k], head[k - 1])
                          THEN head[k - 1] ELSE path[k])

peak(series) == CumMax(cumulative_series(series), Len(series))

\* (cumulative_series - peak) / peak
drawdown(series) ==
    LET path == cumulative_series(series)
        top  == peak(series)
    IN  Tuple([k \in 1..Len(series) |-> RDiv(RSub(path[k], top[k]), top[k])])

\* Series.min(): NaN on an empty series.
RECURSIVE MinFrom(_, _)
MinFrom(values, k) ==
    IF k = 1 THEN values[1]
    ELSE LET m == MinFrom(values, k - 1)
         IN  IF RLess(values[k], m) THEN values[k] ELSE m

Min(values) == IF values = <<>> THEN nan ELSE MinFrom(values, Len(values))

\* max_drawdown without the sentinel.
max_drawdown_NoSentinel(series) == Min(drawdown(series))

\* max_drawdown (lines 313-334)
max_drawdown(series) ==
    LET m == Min(drawdown(series))
    IN  IF m # Zero THEN m ELSE nan

\* mask = drawdown != 0
mask(dd) == Tuple([k \in 1..Len(dd) |-> dd[k] # Zero])

\* groups = mask.ne(mask.shift()).cumsum(): the label of the run that the
\* position belongs to.
RECURSIVE GroupLabels(_, _)
GroupLabels(m, k) ==
    IF k = 0 THEN <<>>
    ELSE LET head == GroupLabels(m, k - 1)
         IN  Append(head, IF k = 1 THEN 1
                          ELSE IF m[k] # m[k - 1] THEN head[k - 1] + 1
                          ELSE head[k - 1])

groups(dd) == GroupLabels(mask(dd), Len(dd))

\* The group g of drawdown.groupby(groups), as a series.
GroupOf(dd, g) ==
    LET labels == groups(dd)
        first  == CHOOSE k \in 1..Len(dd) :
                      labels[k] = g /\ (k = 1 \/ labels[k - 1] # g)
        last   == CHOOSE k \in 1..Len(dd) :
                      labels[k] = g /\ (k = Len(dd) \/ labels[k + 1] # g)
    IN  SubSeq(dd, first, last)

\* KeepGroup without the test of the length.
KeepGroup_AnyLength(g) == \A k \in 1..Len(g) : g[k] # Zero

\* (g.values != 0).all() and len(g) > 1
KeepGroup(g) == (\A k \in 1..Len(g) : g[k] # Zero) /\ Len(g) > 1

\* The list comprehension of line 360: the minima of the groups kept, from
\* group g on.
RECURSIVE GroupMinima(_, _, _)
GroupMinima(dd, g, n) ==
    IF g > n THEN <<>>
    ELSE IF KeepGroup(GroupOf(dd, g))
         THEN <<Min(GroupOf(dd, g))>> \o GroupMinima(dd, g + 1, n)
         ELSE GroupMinima(dd, g + 1, n)

RECURSIVE Sum(_, _)
Sum(values, k) == IF k = 0 THEN Zero ELSE RAdd(Sum(values, k - 1), values[k])

\* np.mean of a non-empty list
Mean(values) == RDiv(Sum(values, Len(values)), Frac(Len(values), 1))

\* avg_drawdown (lines 336-362)
avg_drawdown(series) ==
    LET dd == drawdown(series)
        n  == IF dd = <<>> THEN 0 ELSE groups(dd)[Len(dd)]
        drawdowns == GroupMinima(dd, 1, n)
    IN  IF drawdowns # <<>> THEN Mean(drawdowns) ELSE Zero

\* series[series < 0]
Negative(series) == SelectSeq(series, LAMBDA r : RLess(r, Zero))

Squares(values) == Tuple([k \in 1..Len(values) |-> RMul(values[k], values[k])])

Sign(a) == IF a.n < 0 THEN 0 - 1 ELSE IF a.n > 0 THEN 1 ELSE 0

\* The float x / sqrt(y) * sqrt(f), kept exactly as its sign and its square
\* x * x * f / y; a division by zero under the root gives an infinite
\* denominator and the quotient 0.
Ratio(x, y, f) ==
    IF y.isnan
    THEN [isnan |-> FALSE, sign |-> 0, square |-> Zero]
    ELSE [isnan |-> FALSE, sign |-> Sign(x),
          square |-> RDiv(RMul(RMul(x, x), Frac(f, 1)), y)]

undefined == [isnan |-> TRUE, sign |-> 0, square |-> Zero]

\* sortino without its guard: the quotient is computed for every series
\* with an observation.
sortino_NoGuard(series, ann_freq) ==
    IF Len(series) < 1 THEN undefined
    ELSE Ratio(Mean(series), nan, ann_freq)

\* sortino (lines 227-251)
sortino(series, ann_freq) ==
    IF Len(series) < 1 \/ Len(Negative(series)) = 0
    THEN undefined
    ELSE Ratio(Mean(series),
               RDiv(Sum(Squares(Negative(series)), Len(Negative(series))),
                    Frac(Len(series) - 1, 1)),
               ann_freq)

\* ---------------------------------------- dashboard: get_time_period

\* A pd.Timestamp at midnight.
Date(y, m, d) == [year |-> y, month |-> m, day |-> d]

IsLeap(y) == (y % 4 = 0 /\ y % 100 # 0) \/ y % 400 = 0

DaysInMonth(y, m) ==
    IF m = 2 THEN (IF IsLeap(y) THEN 29 ELSE 28)
    ELSE IF m \in {4, 6, 9, 11} THEN 30 ELSE 31

\* a < b on timestamps
Before(a, b) ==
    \/ a.year < b.year
    \/ a.year = b.year /\ a.month < b.month
    \/ a.year = b.year /\ a.month = b.month /\ a.day < b.day

\* max(a, b) and min(a, b) on timestamps
Latest(a, b) == IF Before(a, b) THEN b ELSE a

Earliest(a, b) == IF Before(b, a) THEN b ELSE a

\* The last day of the month before the month of the date.
EndOfPreviousMonth(date) ==
    IF date.month > 1
    THEN Date(date.year, date.month - 1, DaysInMonth(date.year, date.month - 1))
    ELSE Date(date.year - 1, 12, 31)

\* date - pd.Timedelta(days=n), a month at a time.
RECURSIVE MinusDays(_, _)
MinusDays(date, n) ==
    IF n < date.day THEN Date(date.year, date.month, date.day - n)
    ELSE MinusDays(EndOfPreviousMonth(date), n - date.day)

\* The month that is n months after the month of the date (before it when
\* n is negative), as year and month.
ShiftMonth(date, n) ==
    LET k == date.year * 12 + (date.month - 1) + n
    IN  [year |-> k \div 12, month |-> (k % 12) + 1]

\* date - MonthBegin(n): a date inside a month is first rolled back to the
\* start of its month, which counts as one of the n steps.
MinusMonthBegin(date, n) ==
    LET to == ShiftMonth(date, IF date.day > 1 THEN 1 - n ELSE 0 - n)
    IN  Date(to.year, to.month, 1)

\* date + MonthEnd(n): a date before the end of its month is first rolled
\* forward to that end, which counts as one of the n steps.
PlusMonthEnd(date, n) ==
    LET to == ShiftMonth(date, IF date.day < DaysInMonth(date.year, date.month)
                               THEN n - 1 ELSE n)
    IN  Date(to.year, to.month, DaysInMonth(to.year, to.month))

\* date - pd.DateOffset(months=n): the same day n months earlier, or the
\* last day of that month.
MinusMonths(date, n) ==
    LET to == ShiftMonth(date, 0 - n)
        last == DaysInMonth(to.year, to.month)
    IN  Date(to.year, to.month, IF date.day > last THEN last ELSE date.day)

\* date.to_period('Q').to_timestamp()
QuarterStart(date) == Date(date.year, 3 * ((date.month - 1) \div 3) + 1, 1)

Returned(start, end) == [raised |-> "none", start |-> start, end |-> end]

Raised(exception) == [raised |-> exception]

\* The start and the end of the option before they are clipped (lines
\* 31-60); the end is index[-1] unless the option sets it.
Bounds(option, min_date, max_date) ==
    CASE option = "Full Period" -> <<min_date, max_date>>
      [] option = "MTD" -> <<Date(max_date.year, max_date.month, 1), max_date>>
      [] option = "QTD" -> <<QuarterStart(max_date), max_date>>
      [] option = "YTD" -> <<Date(max_date.year, 1, 1), max_date>>
      [] option = "1Y"  -> <<MinusDays(max_date, 365), max_date>>
      [] option = "PD"  -> <<MinusDays(max_date, 1), max_date>>
      [] option = "PM"  ->
            LET start == MinusMonthBegin(max_date, 2)
            IN  <<start, PlusMonthEnd(start, 1)>>
      [] option = "PQ"  ->
            LET start == QuarterStart(MinusMonths(max_date, 3))
            IN  <<start, PlusMonthEnd(start, 3)>>
      [] option = "PY"  ->
            LET start == MinusMonthBegin(max_date, 13)
            IN  <<start, PlusMonthEnd(start, 12)>>

\* return max(min_date, start), min(max_date, end)
Clip(min_date, max_date, start, end) ==
    Returned(Latest(min_date, start), Earliest(max_date, end))

ValidOptions == {"Full Period", "MTD", "QTD", "YTD", "1Y", "PD", "PM", "PQ", "PY"}

\* get_time_period (lines 5-64): index[0] raises IndexError on an empty
\* index, an option outside the list raises ValueError.
get_time_period(option, index) ==
    IF index = <<>> THEN Raised("IndexError")
    ELSE IF option \notin ValidOptions THEN Raised("ValueError")
    ELSE LET min_date == index[1]
             max_date == index[Len(index)]
             bounds   == Bounds(option, min_date, max_date)
         IN  Clip(min_date, max_date, bounds[1], bounds[2])

\* ------------------------------------------------------------- state

VARIABLES
    file,                \* self.file: the raw ledger
    mapping,             \* the mapping argument, as the caller passed it
    statement,           \* self.statement
    isins,               \* self.isins
    currencies,          \* self.currencies
    tickers,             \* the mapping being completed, then self.tickers
    visited,             \* the ISINs the loop of _complete_ticker_mapping has seen
    current_holdings,    \* _built_portfolio: the running holdings
    current_investment,  \* _built_portfolio: the running investment
    holdings,            \* _built_portfolio: date -> snapshot of the holdings
    investments,         \* _built_portfolio: date -> snapshot of the investment
    i,                   \* the number of statement lines replayed
    period,              \* _built_portfolio: the daily calendar
    portfolio,           \* self.portfolio
    pc,                  \* the step the constructor is at
    error,               \* the exception that left the constructor
    listings,            \* _complete_ticker_mapping: the last answer of get_listings
    series,              \* analytics: the series argument
    index,               \* get_time_period: the index argument
    option,              \* get_time_period: the option argument
    call,                \* the library function that was called, if any
    result               \* what the called function returned or raised

vars == <<file, mapping, statement, isins, currencies, tickers, visited,
          current_holdings, current_investment, holdings, investments, i, period,
          portfolio, pc, error, listings, series, index, option, call, result>>

\* The arguments and the outcome of a call of a library function.
library == <<series, index, option, call, result>>

Empty == [k \in {} |-> NaN]

NoPeriod == [start |-> 1, end |-> 0]

\* No library function has been called.
Nothing == [kind |-> "none"]

NoCall ==
    /\ series = <<>>
    /\ index = <<>>
    /\ option = ""
    /\ call = "none"
    /\ result = Nothing

\* The constructor is entered with the ledger f and the mapping m.
Entered(f, m) ==
    /\ file = f
    /\ mapping = m
    /\ statement = <<>>
    /\ isins = {}
    /\ currencies = {}
    /\ tickers = m
    /\ visited = {}
    /\ current_holdings = Empty
    /\ current_investment = Empty
    /\ holdings = Empty
    /\ investments = Empty
    /\ i = 0
    /\ period = NoPeriod
    /\ portfolio = Empty
    /\ pc = "format"
    /\ error = "none"
    /\ listings = <<>>

Start(f, m) == Entered(f, m) /\ NoCall

\* Ledgers of transactions in export order, replayed under a mapping that
\* names every security; the one-row ledgers also without a mapping.
InitReplay ==
    \E f \in SeqsUpTo(TransactionRows, MaxRows) :
        /\ ExportOrder(f)
        /\ \E m \in {FullMapping} \cup (IF Len(f) = 1 THEN {NoMapping} ELSE {}) :
               Start(f, m)

\* Rows with a date and rows without one: the second and later physical
\* rows of a transaction that the export split.
SplitRows ==
    { Row(<<"2">>, <<"1">>, <<"ASML">>, ISIN1,
          <<"K","o","o","p"," ","2"," ">>,
          <<"-", "3", ",", "0">>, EUR, <<"a1">>),
      Row(<<"1">>, <<"2">>, <<"ASML">>, ISIN1,
          <<"V","e","r","k","o","o","p"," ","1"," ","@"," ","2">>,
          <<"2", ",", "0">>, EUR, NA),
      Row(<<"1">>, <<"0">>, <<"ASML">>, NA,
          <<"t","e","x","t">>,
          <<"1", ",", "0">>, EUR, <<"c3">>),
      Row(NA, NA, NA, NA, <<"@"," ","1",",","5">>, NA, NA, <<"d4">>),
      Row(NA, NA, <<"NV">>, NA, <<"k","o","o","p">>, NA, NA, NA),
      Row(NA, NA, NA, NA, NA, NA, NA, <<"e5">>) }

\* Ledgers with split rows.
InitRepair ==
    \E f \in SeqsUpTo(SplitRows, MaxRows) :
        \E m \in {FullMapping} \cup (IF Len(f) = 1 THEN {NoMapping} ELSE {}) :
            Start(f, m)

\* Phrases of the export's descriptions, one for every keyword of the rule
\* table, and two fragments.
Phrases ==
    { <<"i","D","E","A","L"," ","D","e","p","o","s","i","t">>,
      <<"S","O","F","O","R","T"," ","D","e","p","o","s","i","t">>,
      <<"i","D","E","A","L"," ","W","i","t","h","d","r","a","w","a","l">>,
      <<"S","o","f","o","r","t"," ","W","i","t","h","d","r","a","w","a","l">>,
      <<"V","a","l","u","t","a"," ","D","e","b","i","t","e","r","i","n","g">>,
      <<"V","a","l","u","t","a"," ","C","r","e","d","i","t","e","r","i","n","g">>,
      <<"V","e","r","k","o","o","p">>,
      <<"K","o","o","p">>,
      <<"D","i","v","i","d","e","n","d">>,
      <<"F","l","a","t","e","x"," ","I","n","t","e","r","e","s","t"," ","I","n","c","o","m","e">>,
      <<"V","e","r","r","e","k","e","n","i","n","g"," ","P","r","o","m","o","t","i","e">>,
      <<"D","E","G","I","R","O"," ","T","r","a","n","s","a","c","t","i","e","k","o","s","t","e","n">>,
      <<"D","E","G","I","R","O"," ","A","a","n","s","l","u","i","t","i","n","g","s","k","o","s","t","e","n">>,
      <<"E","x","t","e","r","n","e"," ","K","o","s","t","e","n">>,
      <<"S","t","a","m","p"," ","D","u","t","y">>,
      <<"V","e","r">>,
      <<"x">> }

\* Descriptions of one phrase, or of two, joined with or without a blank.
Descriptions ==
    Phrases \cup {a \o b : a \in Phrases, b \in Phrases}
            \cup {a \o <<" ">> \o b : a \in Phrases, b \in Phrases}

\* One-row ledgers, one for every description.
InitClassify ==
    \E d \in Descriptions :
        \E m \in {FullMapping} \cup (IF d \in Phrases THEN {NoMapping} ELSE {}) :
            Start(<<Row(<<"1">>, <<"0">>, <<"ASML">>, ISIN1, d,
                        <<"1", ",", "0">>, EUR, NA)>>, m)

\* The rows of the ledgers that the constructor is followed on to its end:
\* a purchase in each currency, a deposit, an unclassified row and a purchase
\* whose price is written with a thousands separator.
AccountRows ==
    { Row(<<"1">>, <<"1">>, <<"ASML">>, ISIN1,
          <<"K","o","o","p"," ","2"," ","@"," ","1",",","5">>,
          <<"-", "3", ",", "0">>, EUR, <<"a1">>),
      Row(<<"2">>, <<"2">>, <<"APPLE">>, ISIN2,
          <<"K","o","o","p"," ","1"," ","@"," ","2">>,
          <<"-", "2", ",", "0">>, USD, <<"c3">>),
      Row(<<"1">>, <<"0">>, NA, NA,
          <<"i","D","E","A","L"," ","D","e","p","o","s","i","t">>,
          <<"5", ",", "0">>, EUR, NA),
      Row(<<"2">>, <<"3">>, NA, NA, <<"x">>, <<"1", ",", "0">>, EUR, NA),
      Row(<<"1">>, <<"1">>, <<"ASML">>, ISIN1,
          <<"K","o","o","p"," ","1"," ","@"," ","1",".","0","0","0",",","5">>,
          <<"-", "9", ",", "0">>, EUR, <<"f6">>) }

UserMapping == [t \in {"T1"} |-> ISIN1]

\* Any ledger of those rows, under any of the user's mappings.
Init ==
    \E f \in SeqsUpTo(AccountRows, MaxRows) :
        \E m \in {NoMapping, UserMapping, FullMapping} :
            Start(f, m)

\* ----------------------------------------------------------- actions

\* self.statement = self._format_account_statement(file), self.isins and
\* self.currencies (lines 62-64).
FormatStatement ==
    /\ pc = "format"
    /\ IF FormatError(file)
       THEN /\ pc' = Propagate("format", "ValueError")
            /\ error' = "ValueError"
            /\ UNCHANGED <<statement, isins, currencies>>
       ELSE \E p \in SortOrders(RepairRows(file)) :
                LET kept == DropOther(FormatFrame(file, p))
                IN  /\ statement' = kept
                    /\ isins' = {kept[k].ISIN : k \in 1..Len(kept)} \ {NA}
                    /\ currencies' = {kept[k].currency : k \in 1..Len(kept)} \ {NA}
                    /\ pc' = Propagate("format", "none")
                    /\ error' = "none"
    /\ UNCHANGED <<file, mapping, tickers, visited, current_holdings,
                   current_investment, holdings, investments, i, period, portfolio>>
    /\ UNCHANGED <<listings, library>>

\* Todo without the set of the ISINs that the user mapped.
Todo_AllIsins == isins \ visited

\* The ISINs the loop of _complete_ticker_mapping still has to visit.
Todo == (isins \ Range(mapping)) \ visited

\* One iteration of the loop of _complete_ticker_mapping, for any ISIN the
\* set still holds, with any answer of get_listings.
ResolveTicker ==
    /\ pc = "mapping"
    /\ \E isin \in Todo :
        \E answer \in Lookups :
            LET asset == FirstLineOf(statement, isin)
            IN  IF answer.ok
                THEN /\ listings' = answer.listings
                     /\ tickers' = AddTicker(tickers, answer.listings, 1, asset.currency, isin)
                     /\ visited' = visited \cup {isin}
                     /\ UNCHANGED <<pc, error>>
                ELSE /\ pc' = Propagate("mapping", "LookupError")
                     /\ error' = "LookupError"
                     /\ UNCHANGED <<tickers, visited, listings>>
    /\ UNCHANGED <<file, mapping, statement, isins, currencies,
                   current_holdings, current_investment, holdings, investments,
                   i, period, portfolio>>
    /\ UNCHANGED library

\* _complete_ticker_mapping returns: self.tickers is set (line 65).
CompleteMapping ==
    /\ pc = "mapping"
    /\ Todo = {}
    /\ pc' = Propagate("mapping", "none")
    /\ UNCHANGED <<file, mapping, statement, isins, currencies, tickers,
                   visited, current_holdings, current_investment, holdings,
                   investments, i, period, portfolio, error>>
    /\ UNCHANGED <<listings, library>>

\* One iteration of the inner loop of _built_portfolio (lines 216-223).
ReplayLine ==
    /\ pc = "replay"
    /\ i < Len(statement)
    /\ LET line == statement[i + 1]
       IN  /\ current_holdings' = ApplyHoldings(current_holdings, line)
           /\ current_investment' = AdjustInvestment(current_investment, line)
    /\ i' = i + 1
    /\ pc' = IF GroupEnds(statement, i + 1) THEN "snapshot" ELSE "replay"
    /\ UNCHANGED <<file, mapping, statement, isins, currencies, tickers,
                   visited, holdings, investments, period, portfolio, error>>
    /\ UNCHANGED <<listings, library>>

\* The end of a date's group (lines 224-225): both running mappings are
\* copied into the date's snapshot.
Snapshot ==
    /\ pc = "snapshot"
    /\ holdings' = StoreSnapshot(holdings, statement[i].date, current_holdings)
    /\ investments' = StoreSnapshot(investments, statement[i].date, current_investment)
    /\ current_holdings' = CarryForward(current_holdings)
    /\ current_investment' = CarryForward(current_investment)
    /\ pc' = "replay"
    /\ UNCHANGED <<file, mapping, statement, isins, currencies, tickers,
                   visited, i, period, portfolio, error>>
    /\ UNCHANGED <<listings, library>>

\* The rest of _built_portfolio (lines 227-240), for any "yesterday" that is
\* not before the eve of the last transaction: statement.date.iloc[0] raises
\* IndexError on an empty statement.
BuildDaily ==
    /\ pc = "replay"
    /\ i = Len(statement)
    /\ IF statement = <<>>
       THEN /\ pc' = Propagate("replay", "IndexError")
            /\ error' = "IndexError"
            /\ UNCHANGED <<period, portfolio>>
       ELSE \E yesterday \in (statement[Len(statement)].date - 1)..MaxDay :
                /\ period' = [start |-> statement[1].date, end |-> yesterday]
                /\ portfolio' = DailyPortfolio(holdings, investments,
                                               statement[1].date, yesterday)
                /\ pc' = Propagate("replay", "none")
                /\ error' = "none"
    /\ UNCHANGED <<file, mapping, statement, isins, currencies, tickers,
                   visited, current_holdings, current_investment, holdings,
                   investments, i>>
    /\ UNCHANGED <<listings, library>>

\* self._add_prices() (line 69): dates[0] raises IndexError on an empty
\* portfolio; otherwise get_closing_prices is called with the keyword ffill,
\* which it does not take, and the call raises TypeError.
AddPrices ==
    /\ pc = "prices"
    /\ error' = IF DOMAIN portfolio = {} THEN "IndexError" ELSE "TypeError"
    /\ pc' = Propagate("prices", error')
    /\ UNCHANGED <<file, mapping, statement, isins, currencies, tickers,
                   visited, current_holdings, current_investment, holdings,
                   investments, i, period, portfolio>>
    /\ UNCHANGED <<listings, library>>

Next ==
    \/ FormatStatement
    \/ ResolveTicker
    \/ CompleteMapping
    \/ ReplayLine
    \/ Snapshot
    \/ BuildDaily
    \/ AddPrices

Spec == Init /\ [][Next]_vars

SpecReplay == InitReplay /\ [][Next]_vars

SpecRepair == InitRepair /\ [][Next]_vars

SpecClassify == InitClassify /\ [][Next]_vars
\* ---------------------------------------- analytics: calls and inputs

\* The longest series.
MaxLen == 5

\* Period returns: -50 %, -25 %, 0 and +100 %.
Returns == {Frac(0 - 1, 2), Frac(0 - 1, 4), Zero, One}

\* The periods of a year that the ratios are annualized with.
Frequencies == {1, 12}

SeriesUpTo(n) == UNION {[1..k -> Returns] : k \in 0..n}

\* Return series of at most MaxLen periods, before any call.
InitSeries ==
    /\ Entered(<<>>, NoMapping)
    /\ series \in SeriesUpTo(MaxLen)
    /\ index = <<>>
    /\ option = ""
    /\ call = "none"
    /\ result = Nothing

account == <<file, mapping, statement, isins, currencies, tickers, visited,
             current_holdings, current_investment, holdings, investments, i,
             period, portfolio, pc, error, listings>>

\* max_drawdown(series) is called.
MaxDrawdown ==
    /\ call = "none"
    /\ call' = "max_drawdown"
    /\ result' = max_drawdown(series)
    /\ UNCHANGED <<account, series, index, option>>

\* avg_drawdown(series) is called.
AvgDrawdown ==
    /\ call = "none"
    /\ call' = "avg_drawdown"
    /\ result' = avg_drawdown(series)
    /\ UNCHANGED <<account, series, index, option>>

\* sortino(series, ann_freq) is called.
Sortino ==
    /\ call = "none"
    /\ call' = "sortino"
    /\ \E ann_freq \in Frequencies : result' = sortino(series, ann_freq)
    /\ UNCHANGED <<account, series, index, option>>

NextSeries ==
    \/ MaxDrawdown
    \/ AvgDrawdown
    \/ Sortino

SpecSeries == InitSeries /\ [][NextSeries]_vars

\* ---------------------------------------- dashboard: calls and inputs

\* The longest index, in observation dates.
MaxIndex == 2

\* Observation dates: starts, middles and ends of months, across a leap
\* day and a turn of the year.
ObservationDates ==
    { Date(2023, 1, 15), Date(2023, 12, 31), Date(2024, 1, 1), Date(2024, 2, 29),
      Date(2024, 3, 1), Date(2024, 3, 15), Date(2024, 3, 31), Date(2024, 5, 10) }

\* The DatetimeIndex values: increasing dates.
Indexes ==
    UNION {{f \in [1..k -> ObservationDates] :
               \A j \in 1..(k - 1) : Before(f[j], f[j + 1])} : k \in 0..MaxIndex}

\* The options of the dashboard, and one that the docstring names but the
\* function does not know.
Options == ValidOptions \cup {"PMTD"}

InitPeriod ==
    /\ Entered(<<>>, NoMapping)
    /\ series = <<>>
    /\ index \in Indexes
    /\ option \in Options
    /\ call = "none"
    /\ result = Nothing

\* get_time_period(option, index) is called.
GetTimePeriod ==
    /\ call = "none"
    /\ call' = "get_time_period"
    /\ result' = get_time_period(option, index)
    /\ UNCHANGED <<account, series, index, option>>

NextPeriod == GetTimePeriod

SpecPeriod == InitPeriod /\ [][NextPeriod]_vars

\* ------------------------------------------------------------ claims

\* The keys a statement line writes: its currency, and its ISIN when it is
\* a buy or a sell.
IsTrade(line) == line.type = "buy" \/ line.type = "sell"

\* What a line adds to the holding of key.
HoldingDelta(line, key) ==
    FAdd(IF key = line.currency THEN line.amount ELSE F(0),
         IF IsTrade(line) /\ key = line.ISIN THEN line.shares ELSE F(0))

\* What a line adds to the investment of key.
InvestmentDelta(line, key) ==
    FSub(IF key = line.currency THEN line.amount ELSE F(0),
         IF IsTrade(line) /\ key = line.ISIN THEN line.amount ELSE F(0))

KeysOf(line) == {line.currency} \cup (IF IsTrade(line) THEN {line.ISIN} ELSE {})

\* C1: replaying a statement line adds its net cash amount to
\* holdings[currency] and investment[currency]; if and only if it is a buy or
\* a sell it also adds the signed shares to holdings[ISIN] and subtracts the
\* amount from investment[ISIN]; no other key is created or changed.
C1_ReplayUpdateRule ==
    [][(pc = "replay" /\ i' = i + 1) =>
        LET line == statement[i + 1]
        IN  /\ DOMAIN current_holdings' = DOMAIN current_holdings \cup KeysOf(line)
            /\ DOMAIN current_investment' = DOMAIN current_investment \cup KeysOf(line)
            /\ \A key \in DOMAIN current_holdings' :
                   current_holdings'[key] =
                       FAdd(Get(current_holdings, key), HoldingDelta(line, key))
            /\ \A key \in DOMAIN current_investment' :
                   current_investment'[key] =
                       FAdd(Get(current_investment, key), InvestmentDelta(line, key))
      ]_vars

\* C1 witness: a purchase of 2 shares for 3.0 has been replayed after a cost
\* line of the same security: cash is down, the basis of the security is up
\* by 3.0 and the cost line left the security's keys alone.
C1_Witness ==
    /\ i = 2
    /\ statement[1].type = "cost"
    /\ statement[2].type = "buy"
    /\ current_holdings = (EUR :> F(0 - 35)) @@ (ISIN1 :> F(20))
    /\ current_investment = (EUR :> F(0 - 35)) @@ (ISIN1 :> F(30))

\* The sum of the deltas of key over the lines 1..k of the statement.
RECURSIVE SumHolding(_, _, _)
SumHolding(lines, k, key) ==
    IF k = 0 THEN F(0)
    ELSE FAdd(SumHolding(lines, k - 1, key), HoldingDelta(lines[k], key))

RECURSIVE SumInvestment(_, _, _)
SumInvestment(lines, k, key) ==
    IF k = 0 THEN F(0)
    ELSE FAdd(SumInvestment(lines, k - 1, key), InvestmentDelta(lines[k], key))

AllKeys(lines, k) == UNION {KeysOf(lines[j]) : j \in 1..k}

LastDate == statement[Len(statement)].date

\* C2: once the last date's snapshot is stored, its holding of every asset
\* key is the direct sum of that key's deltas over the whole statement, and
\* it has no other key.
C2_RoundTrip ==
    (statement # <<>> /\ LastDate \in DOMAIN holdings) =>
        /\ DOMAIN holdings[LastDate] = AllKeys(statement, Len(statement))
        /\ \A key \in AllKeys(statement, Len(statement)) :
               holdings[LastDate][key] = SumHolding(statement, Len(statement), key)

\* C2 witness: a statement of three dates is replayed to its end and the
\* security bought on the first date and sold on the second is held again.
C2_Witness ==
    /\ Len(statement) = 3
    /\ DOMAIN holdings = {1, 2, 3}
    /\ ISIN1 \in DOMAIN holdings[2]
    /\ holdings[2][ISIN1] = F(0)
    /\ holdings[3][ISIN1] = F(20)
    /\ holdings[3][EUR] = F(0 - 20)

\* The number of lines dated d or earlier (the statement is in date order).
LinesUpTo(d) == Cardinality({k \in 1..Len(statement) : statement[k].date <= d})

\* C3: the snapshot of date d is the cumulative state after all lines of
\* every date up to d, and storing or replaying later never changes it.
C3_SnapshotsCumulative ==
    /\ [](\A d \in DOMAIN holdings :
            /\ d \in DOMAIN investments
            /\ DOMAIN holdings[d] = AllKeys(statement, LinesUpTo(d))
            /\ DOMAIN investments[d] = AllKeys(statement, LinesUpTo(d))
            /\ \A key \in AllKeys(statement, LinesUpTo(d)) :
                  /\ holdings[d][key] = SumHolding(statement, LinesUpTo(d), key)
                  /\ investments[d][key] = SumInvestment(statement, LinesUpTo(d), key))
    /\ [][\A d \in DOMAIN holdings :
            /\ d \in DOMAIN holdings'
            /\ holdings'[d] = holdings[d]
            /\ investments'[d] = investments[d]]_vars

\* C3 witness: a line of a later date has been replayed, and the running
\* holdings differ from the snapshot stored for the earlier date.
C3_Witness ==
    /\ pc = "snapshot"
    /\ 1 \in DOMAIN holdings
    /\ statement[i].date = 3
    /\ holdings[1] # current_holdings
    /\ holdings[1] = (EUR :> F(0 - 30)) @@ (ISIN1 :> F(20))
\* _format_account_statement has returned.
FormatOk == pc # "format" /\ error # "ValueError"

\* The lines of the statement that come from the physical row k.
LinesOf(k) == {j \in 1..Len(statement) : statement[j].origin = k}

Dated(k) == file[k]["date"] # NA

\* The last row of the run of undated rows that follows row k (k itself
\* when the next row is dated).
RunEnd(k) ==
    CHOOSE j \in k..Len(file) :
        /\ \A o \in (k + 1)..j : ~ Dated(o)
        /\ j = Len(file) \/ Dated(j + 1)

\* The column c of row k followed by the non-empty cells of column c of the
\* rows k+1..j, in order; missing when all of them are.
RECURSIVE Appended(_, _, _)
Appended(k, j, c) ==
    IF j = k THEN file[k][c]
    ELSE LET head == Appended(k, j - 1, c)
         IN  IF file[j][c] = NA THEN head
             ELSE IF head = NA THEN file[j][c]
             ELSE head \o file[j][c]

TextCols == {"name", "ISIN", "description", "mutation", "currency", "order_id"}

\* C4: for any run of k >= 1 undated rows, the non-empty fields of every row
\* of the run are appended onto the nearest preceding dated row and the rows
\* of the run are dropped: no content of a continuation row is lost (for a
\* ledger that begins with a dated row, so that every run has one).
C4_RunsAppended ==
    (FormatOk /\ Len(file) > 0 /\ Dated(1)) =>
        \A j \in 1..Len(statement) :
            LET k == statement[j].origin
            IN  /\ Dated(k)
                /\ \A c \in TextCols : statement[j][c] = Appended(k, RunEnd(k), c)

\* Row k is a transaction split into the two physical rows k and k + 1.
SingleSplit(k) ==
    /\ k + 1 <= Len(file)
    /\ Dated(k)
    /\ ~ Dated(k + 1)
    /\ file[k + 1]["time"] = NA
    /\ RunEnd(k) = k + 1

\* The description of row k followed by the description of row k + 1.
SplitDescription(k) ==
    IF file[k]["description"] = NA THEN NA
    ELSE file[k]["description"] \o FillNa(file[k + 1])["description"]

Priority ==
    <<"deposit", "withdrawal", "fx", "sell", "buy", "dividend", "interest",
      "rebate", "cost">>

KeywordsOf(type) ==
    LINE_TYPES[CHOOSE k \in 1..Len(LINE_TYPES) : LINE_TYPES[k].type = type].keywords

\* A keyword of the category is inside the text.
Hits(text, type) == \E keyword \in KeywordsOf(type) : Contains(text, keyword)

\* The first category of Priority that hits the lower-cased description.
ExpectedType(description) ==
    LET text == Lower(Str(description))
        hits == {k \in 1..Len(Priority) : Hits(text, Priority[k])}
    IN  IF hits = {} THEN "other"
        ELSE Priority[CHOOSE k \in hits : \A o \in hits : k <= o]

\* C6: a row is classified as the first category, in the order deposit,
\* withdrawal, fx, sell, buy, dividend, interest, rebate, cost, with a
\* keyword inside its lower-cased description, and "other" without one (the
\* row is then not in the statement); a description with "verkoop" is a sell
\* unless a deposit, withdrawal or fx keyword is inside it as well.
C6_ClassifierPriority ==
    FormatOk =>
        \A k \in 1..Len(file) :
            Dated(k) =>
                LET description == RepairRows(file)[CHOOSE j \in 1..Len(RepairRows(file)) :
                                       RepairRows(file)[j].origin = k].cells["description"]
                    text == Lower(Str(description))
                IN  /\ ExpectedType(description) = "other" => LinesOf(k) = {}
                    /\ ExpectedType(description) # "other" =>
                          /\ LinesOf(k) # {}
                          /\ \A j \in LinesOf(k) : statement[j].type = ExpectedType(description)
                    /\ ( /\ Contains(text, <<"v","e","r","k","o","o","p">>)
                         /\ ~ Hits(text, "deposit")
                         /\ ~ Hits(text, "withdrawal")
                         /\ ~ Hits(text, "fx") ) =>
                          /\ LinesOf(k) # {}
                          /\ \A j \in LinesOf(k) : statement[j].type = "sell"

\* C6 witness: "Koop Verkoop" holds a buy and a sell keyword and is a sell.
C6_Witness ==
    /\ FormatOk
    /\ Len(statement) = 1
    /\ statement[1].description = <<"K","o","o","p"," ","V","e","r","k","o","o","p">>
    /\ statement[1].type = "sell"
\* The repaired rows of the ledger, and the categories they fall in.
Repaired == RepairRows(file)

IsOther(row) == classify_line(row.cells) = "other"

OtherRows == {k \in 1..Len(Repaired) : IsOther(Repaired[k])}

\* The sum of the amounts in currency cur of the rows 1..k that are not
\* classified "other".
RECURSIVE CashOfRows(_, _, _)
CashOfRows(rows, k, cur) ==
    IF k = 0 THEN F(0)
    ELSE IF ~ IsOther(rows[k]) /\ rows[k].cells["currency"] = cur
         THEN FAdd(CashOfRows(rows, k - 1, cur), ParseNum(rows[k].cells["amount"]))
         ELSE CashOfRows(rows, k - 1, cur)

CashKeys(rows) ==
    {rows[k].cells["currency"] : k \in {o \in 1..Len(rows) : ~ IsOther(rows[o])}}

\* The replay is over and the daily portfolio is built.
Built == pc = "prices"

\* No row classified "other" has changed the cash holdings or the basis.
OtherRowsNotReplayed ==
    Built =>
        LET rows == Tuple(Repaired)
        IN  \A cur \in {EUR, USD} :
                IF cur \in CashKeys(rows)
                THEN /\ cur \in DOMAIN current_holdings
                     /\ current_holdings[cur] = CashOfRows(rows, Len(rows), cur)
                     /\ current_investment[cur] = CashOfRows(rows, Len(rows), cur)
                ELSE cur \notin DOMAIN current_holdings \cup DOMAIN current_investment

Days == period.start..period.end

\* A holding that is a number other than zero.
NonZero(x) == ~ x.isnan /\ x # F(0)

\* The value of the asset in the last snapshot of a day up to t that has a
\* number for it; missing when there is none.
LastKnown(snapshots, t, asset) ==
    LET known == {d \in DOMAIN snapshots :
                     /\ d <= t
                     /\ asset \in DOMAIN snapshots[d]
                     /\ ~ snapshots[d][asset].isnan}
    IN  IF known = {} THEN NaN
        ELSE snapshots[CHOOSE d \in known : \A o \in known : o <= d][asset]

\* The date the asset first appears.
FirstAppearance(asset) ==
    CHOOSE d \in DOMAIN holdings :
        /\ asset \in DOMAIN holdings[d]
        /\ \A o \in DOMAIN holdings : asset \in DOMAIN holdings[o] => d <= o

\* C8, as claimed: every asset has a row on every calendar date between its
\* first appearance and the last date its holding is non-zero, also when it
\* was sold out and bought again in between.
C8_Original ==
    Built =>
        \A asset \in AssetsOf(holdings) :
            \A t \in Days :
                ( /\ FirstAppearance(asset) <= t
                  /\ \E u \in Days : t <= u /\ NonZero(LastKnown(holdings, u, asset)) )
                => <<t, asset>> \in DOMAIN portfolio

\* C8, amended: over the period from the first transaction date to
\* yesterday, an asset has a row on a calendar date exactly when its holding
\* carried forward to that date is a number other than zero (and its basis
\* is known), whether or not a transaction occurred on the date, and the row
\* shows the carried values; the dates between a sale to zero and the next
\* purchase have no row.
C8_DailyRows ==
    Built =>
        /\ DOMAIN portfolio \subseteq Days \X AssetsOf(holdings)
        /\ \A asset \in AssetsOf(holdings) :
              \A t \in Days :
                 /\ <<t, asset>> \in DOMAIN portfolio <=>
                        /\ NonZero(LastKnown(holdings, t, asset))
                        /\ ~ LastKnown(investments, t, asset).isnan
                 /\ <<t, asset>> \in DOMAIN portfolio =>
                        /\ portfolio[<<t, asset>>].holding = LastKnown(holdings, t, asset)
                        /\ portfolio[<<t, asset>>].investment =
                               LastKnown(investments, t, asset)

\* C8 witness: the security was bought on day 1 and sold on day 3; day 2 has
\* no transaction and has the row of the security, with the holding of day 1.
C8_Witness ==
    /\ Built
    /\ DOMAIN holdings = {1, 3}
    /\ period.end >= 3
    /\ <<2, ISIN1>> \in DOMAIN portfolio
    /\ portfolio[<<2, ISIN1>>].holding = F(20)
    /\ <<3, ISIN1>> \notin DOMAIN portfolio

\* C9: no row of the portfolio has a holding of zero; an asset whose
\* holding becomes zero on date d has no row on d or later until a later
\* transaction makes its holding non-zero, and from that date its rows
\* appear again.
C9_ClosedPositions ==
    Built =>
        /\ \A ix \in DOMAIN portfolio : portfolio[ix].holding # F(0)
        /\ \A d \in DOMAIN holdings :
              \A asset \in DOMAIN holdings[d] :
                 holdings[d][asset] = F(0) =>
                    \A t \in Days :
                       /\ ( /\ d <= t
                            /\ \A o \in DOMAIN holdings :
                                  (d < o /\ o <= t) => ~ NonZero(holdings[o][asset]) )
                          => <<t, asset>> \notin DOMAIN portfolio
                       /\ ( /\ d < t
                            /\ \E o \in DOMAIN holdings :
                                  /\ d < o
                                  /\ o <= t
                                  /\ NonZero(holdings[o][asset])
                                  /\ \A u \in DOMAIN holdings : ~ (o < u /\ u <= t) )
                          => <<t, asset>> \in DOMAIN portfolio

\* C9 witness: the security is bought on day 1, sold out on day 2 and bought
\* again on day 3: it has a row on day 1, none on day 2 and one on day 3.
C9_Witness ==
    /\ Built
    /\ DOMAIN holdings = {1, 2, 3}
    /\ ISIN1 \in DOMAIN holdings[2]
    /\ holdings[2][ISIN1] = F(0)
    /\ period.end >= 3
    /\ <<1, ISIN1>> \in DOMAIN portfolio
    /\ <<2, ISIN1>> \notin DOMAIN portfolio
    /\ <<3, ISIN1>> \in DOMAIN portfolio

\* The order of the steps of the constructor (the replay alternates with the
\* storing of a date's snapshot).
StepOrder ==
    {<<"format", "mapping">>, <<"mapping", "replay">>, <<"replay", "snapshot">>,
     <<"snapshot", "replay">>, <<"replay", "prices">>, <<"prices", "valuation">>,
     <<"valuation", "done">>}

\* C10: the constructor runs its steps in the order format, mapping, build
\* portfolio, prices, valuation; an error of a step or of a lookup ends the
\* construction with that error, and no Account is produced after an error.
C10_AllOrNothing ==
    /\ [](error # "none" <=> pc = "failed")
    /\ [](pc = "done" => error = "none")
    /\ [][pc' # pc => (pc' = "failed" /\ error' # "none") \/ <<pc, pc'>> \in StepOrder]_vars
    /\ [][pc = "failed" => (pc' = "failed" /\ error' = error)]_vars

\* C10 witness: the statement was formatted, the lookup of the listings of
\* a security failed and the construction ended with the LookupError before
\* any line was replayed.
C10_Witness ==
    /\ pc = "failed"
    /\ error = "LookupError"
    /\ statement # <<>>
    /\ i = 0
    /\ DOMAIN holdings = {}
\* Closing prices as the exchange quotes them: for a ticker, the price of
\* every day it traded on (tenths); a day without trading has no entry.
Markets ==
    { [t \in {"T1", "T2", "T3"} |-> (1 :> F(15)) @@ (3 :> F(20))],
      [t \in {"T1", "T2", "T3"} |-> (1 :> F(15)) @@ (2 :> F(10)) @@ (4 :> F(20))] }

\* The days of the window up to t that the ticker was quoted on.
QuotedUpTo(market, ticker, t) ==
    {d \in DOMAIN market[ticker] : period.start <= d /\ d <= t}

\* The most recent quote of the ticker on day t.
LastQuote(market, ticker, t) ==
    LET days == QuotedUpTo(market, ticker, t)
    IN  market[ticker][CHOOSE d \in days : \A o \in days : o <= d]

\* _add_prices was called on a portfolio with rows and has ended.
AddPricesEnded ==
    \/ pc \in {"valuation", "done"}
    \/ pc = "failed" /\ error = "TypeError"

\* C11: after _add_prices, every portfolio row (date, ISIN) whose ISIN has a
\* ticker in the mapping and for which a price was quoted on that date or
\* on an earlier date of the window has a close equal to the most recent
\* quoted price.
C11_ClosesAttached ==
    AddPricesEnded =>
        \A market \in Markets :
            \A ix \in DOMAIN portfolio :
                \A ticker \in DOMAIN tickers :
                    (tickers[ticker] = ix[2] /\ QuotedUpTo(market, ticker, ix[1]) # {}) =>
                        /\ "close" \in DOMAIN portfolio[ix]
                        /\ portfolio[ix]["close"] = LastQuote(market, ticker, ix[1])

\* The constructor has ended, with an Account or with an exception, after
\* the daily portfolio was built with rows.
EndedWithRows == pc \in {"done", "failed"} /\ DOMAIN portfolio # {}

C13_ExtractionFatal ==
    FormatOk =>
        \A j \in 1..Len(statement) :
            IsTrade(statement[j]) =>
                /\ ~ statement[j].shares.isnan
                /\ ~ statement[j].price.isnan

\* C14: in the formatted statement every sell has negative shares, every
\* buy has positive shares, and the lines of every other category have no
\* shares value.
C14_SharesSignAndScope ==
    FormatOk =>
        \A j \in 1..Len(statement) :
            LET line == statement[j]
            IN  /\ line.type = "sell" => (~ line.shares.isnan /\ line.shares.v < 0)
                /\ line.type = "buy" => (~ line.shares.isnan /\ line.shares.v > 0)
                /\ ~ IsTrade(line) => line.shares.isnan
\* The first position of the set.
First(positions) == CHOOSE k \in positions : \A o \in positions : k <= o

\* The ISIN that a step of the mapping loop has resolved.
Resolved == CHOOSE isin \in visited' \ visited : TRUE

\* The listings, in the order of the answer, in the currency of the ISIN's
\* first statement line.
InCurrency(answer, isin) ==
    {k \in 1..Len(answer) : answer[k].currency = FirstLineOf(statement, isin).currency}

MappingReturned ==
    \/ pc \in {"replay", "snapshot", "prices", "valuation", "done"}
    \/ pc = "failed" /\ error \in {"IndexError", "TypeError"}

\* C16: after _complete_ticker_mapping returns without error, every ISIN of
\* the statement is the value of at least one ticker of the mapping.
C16_MappingComplete == MappingReturned => isins \subseteq Range(tickers)
\* The path of a return series: the product of (1 + r) over the periods
\* 1..k, its running maximum and the drawdown at k.
RECURSIVE CumAt(_, _)
CumAt(r, k) == IF k = 0 THEN One ELSE RMul(CumAt(r, k - 1), RAdd(One, r[k]))

PeakAt(r, k) ==
    CHOOSE top \in {CumAt(r, j) : j \in 1..k} :
        \A j \in 1..k : ~ RLess(top, CumAt(r, j))

DrawdownAt(r, k) == RDiv(RSub(CumAt(r, k), PeakAt(r, k)), PeakAt(r, k))

\* The periods at which the path is below its running peak.
Dips(r) == {k \in 1..Len(r) : RLess(CumAt(r, k), PeakAt(r, k))}

\* C17: max_drawdown returns the minimum over the path of (cum - peak)/peak,
\* a negative number, except that it returns NaN, never 0, when the path
\* never falls below its running peak.
C17_MaxDrawdown ==
    call = "max_drawdown" =>
        LET dds == {DrawdownAt(series, k) : k \in 1..Len(series)}
        IN  IF Dips(series) = {}
            THEN result.isnan /\ result # Zero
            ELSE /\ ~ result.isnan
                 /\ result \in dds
                 /\ \A x \in dds : ~ RLess(x, result)
                 /\ RLess(result, Zero)

\* C17 witness: max_drawdown([0.0, 0.0]) is NaN.
C17_Witness ==
    /\ call = "max_drawdown"
    /\ series = <<Zero, Zero>>
    /\ result.isnan

\* The periods a..b are a maximal contiguous run of non-zero drawdown.
IsRun(r, a, b) ==
    /\ a <= b
    /\ \A k \in a..b : DrawdownAt(r, k) # Zero
    /\ a = 1 \/ DrawdownAt(r, a - 1) = Zero
    /\ b = Len(r) \/ DrawdownAt(r, b + 1) = Zero

\* The runs of more than one period.
KeptRuns(r) ==
    {run \in (1..Len(r)) \X (1..Len(r)) : IsRun(r, run[1], run[2]) /\ run[2] > run[1]}

MinOfRun(r, run) ==
    CHOOSE low \in {DrawdownAt(r, k) : k \in run[1]..run[2]} :
        \A k \in run[1]..run[2] : ~ RLess(DrawdownAt(r, k), low)

RECURSIVE SumOfMinima(_, _)
SumOfMinima(r, runs) ==
    IF runs = {} THEN Zero
    ELSE LET run == CHOOSE run \in runs : TRUE
         IN  RAdd(MinOfRun(r, run), SumOfMinima(r, runs \ {run}))

\* C18: avg_drawdown is the arithmetic mean of the minima of the maximal
\* contiguous runs of non-zero drawdown that are longer than one period,
\* and 0.0 when there is no such run.
C18_AvgDrawdown ==
    call = "avg_drawdown" =>
        LET kept == KeptRuns(series)
        IN  result = IF kept = {} THEN Zero
                     ELSE RDiv(SumOfMinima(series, kept), Frac(Cardinality(kept), 1))

\* C18 witness: a drawdown of one period (-25 %), a new peak, and a
\* drawdown of two periods (-50 %): the average is -50 %.
C18_Witness ==
    /\ call = "avg_drawdown"
    /\ series = <<Zero, Frac(0 - 1, 4), One, Frac(0 - 1, 2), Zero>>
    /\ KeptRuns(series) = {<<4, 5>>}
    /\ result = Frac(0 - 1, 2)

\* C19: sortino returns NaN for every series without a strictly negative
\* observation, the empty series included.
C19_SortinoSentinel ==
    call = "sortino" =>
        ((\A k \in 1..Len(series) : ~ RLess(series[k], Zero)) => result.isnan)

\* C19 witness: sortino of an all-positive series is NaN.
C19_Witness ==
    /\ call = "sortino"
    /\ series = <<One, One>>
    /\ result.isnan
\* C20: for every valid option and every non-empty index, both bounds that
\* get_time_period returns lie within [index[0], index[-1]].
C20_BoundsClipped ==
    (call = "get_time_period" /\ result.raised = "none") =>
        /\ ~ Before(result.start, index[1])
        /\ ~ Before(index[Len(index)], result.start)
        /\ ~ Before(result.end, index[1])
        /\ ~ Before(index[Len(index)], result.end)

\* No ISIN of the statement is also one of its currency codes.
NoKeyClash == isins \cap currencies = {}

\* C21: in every per-date snapshot and in every row of the final portfolio,
\* the investment of a currency key equals its holding, provided no security
\* identifier coincides with a currency code.
C21_CashBasis ==
    NoKeyClash =>
        /\ \A d \in DOMAIN holdings :
              \A cur \in currencies \cap DOMAIN holdings[d] :
                  /\ d \in DOMAIN investments
                  /\ cur \in DOMAIN investments[d]
                  /\ investments[d][cur] = holdings[d][cur]
        /\ \A ix \in DOMAIN portfolio :
              ix[2] \in currencies =>
                  portfolio[ix].investment = portfolio[ix].holding

\* C21 witness: a deposit, a purchase and a sale on three dates are replayed
\* and the portfolio is built: the cash rows differ from day to day and the
\* security's basis differs from its holding.
C21_Witness ==
    /\ Built
    /\ NoKeyClash
    /\ DOMAIN holdings = {1, 2, 3}
    /\ DOMAIN holdings[1] = {EUR}
    /\ holdings[1][EUR] = F(50)
    /\ holdings[2][EUR] = F(20)
    /\ holdings[3][EUR] = F(60)
    /\ <<3, EUR>> \in DOMAIN portfolio
    /\ portfolio[<<3, EUR>>].investment = F(60)
    /\ <<2, ISIN1>> \in DOMAIN portfolio
    /\ portfolio[<<2, ISIN1>>].investment # portfolio[<<2, ISIN1>>].holding

\* The sum of the investment over the asset keys S of the mapping d.
RECURSIVE TotalOver(_, _)
TotalOver(d, S) ==
    IF S = {} THEN F(0)
    ELSE LET key == CHOOSE x \in S : TRUE
         IN  FAdd(d[key], TotalOver(d, S \ {key}))

TotalInvestment(d) == TotalOver(d, DOMAIN d)

\* The sum of the amounts of the lines 1..k that are not buy or sell lines.
RECURSIVE NonTradeCash(_, _)
NonTradeCash(lines, k) ==
    IF k = 0 THEN F(0)
    ELSE FAdd(NonTradeCash(lines, k - 1),
              IF IsTrade(lines[k]) THEN F(0) ELSE lines[k].amount)

\* C22: after replaying any number of lines, the investment summed over all
\* asset keys (currencies and ISINs) is the sum of the net cash amounts of
\* the replayed lines that are not buy or sell lines, in the running mapping
\* and in every stored snapshot; replaying a buy or a sell line leaves the
\* total unchanged.
C22_Conservation ==
    /\ [](/\ TotalInvestment(current_investment) = NonTradeCash(statement, i)
          /\ \A d \in DOMAIN investments :
                TotalInvestment(investments[d]) = NonTradeCash(statement, LinesUpTo(d)))
    /\ [][(pc = "replay" /\ i' = i + 1 /\ IsTrade(statement[i + 1])) =>
            TotalInvestment(current_investment') = TotalInvestment(current_investment)
        ]_vars

\* C22 witness: a deposit of 5.0, a purchase for 3.0 and its cost of 0.5 are
\* replayed: the purchase moved 3.0 of basis from the cash to the security
\* and the total is the deposit less the cost.
C22_Witness ==
    /\ i = 3
    /\ Len(statement) = 3
    /\ \E k \in 1..3 : statement[k].type = "buy"
    /\ current_investment = (EUR :> F(15)) @@ (ISIN1 :> F(30))
    /\ TotalInvestment(current_investment) = F(45)
    /\ NonTradeCash(statement, 3) = F(45)

\* The physical row k has a date and the row after it, if any, has one too.
Unextended(k) == Dated(k) /\ (k = Len(file) \/ Dated(k + 1))

\* C23: repairing continuation rows changes only the row immediately
\* preceding a continuation row: every dated row that is not directly
\* followed by a continuation row keeps all its fields unchanged, also when
\* the very first row of the ledger has an empty date field.
C23_RepairFrame ==
    FormatOk =>
        \A j \in 1..Len(statement) :
            LET k == statement[j].origin
            IN  Unextended(k) =>
                    statement[j] = FormatLine([origin |-> k, cells |-> file[k]])

\* The ISINs that the user's mapping names.
UserIsins == Range(mapping)

\* C24: every ticker-to-ISIN entry supplied by the user is present unchanged
\* in the mapping being completed and in the completed one (a resolved
\* ticker never overwrites or removes a user entry), and get_listings is
\* called only for ISINs that are not a value of the user mapping: no such
\* ISIN is ever looked up, and a lookup fails only while an ISIN that the
\* user did not map is pending.
C24_UserMappingPreserved ==
    /\ [](\A t \in DOMAIN mapping :
              t \in DOMAIN tickers /\ tickers[t] = mapping[t])
    /\ [](visited \cap UserIsins = {})
    /\ [][(pc = "mapping" /\ (visited' # visited \/ pc' = "failed")) =>
            /\ (isins \ UserIsins) \ visited # {}
            /\ visited' \subseteq isins \ UserIsins
        ]_vars

\* C24 witness: the user mapped T1 to NL01; for US02 get_listings offered
\* T1 first, and the mapping is completed with T2 for US02 and the user's
\* entry as it was.
C24_Witness ==
    /\ pc = "replay"
    /\ mapping = UserMapping
    /\ isins = {ISIN1, ISIN2}
    /\ visited = {ISIN2}
    /\ listings = <<Quote("T1", USD), Quote("T2", USD)>>
    /\ tickers = [t \in {"T1", "T2"} |-> IF t = "T1" THEN ISIN1 ELSE ISIN2]
====
